---- MODULE Spec2Model ----
(***************************************************************************)
(* Model of src/convert_data.py: the delimiter detector                    *)
(* (detect_delimiter), the single-file converter (convert_data) and the    *)
(* batch converter (batch_convert_data).                                   *)
(*                                                                         *)
(* Three specifications share the variables:                               *)
(*   SpecDetect   a call of detect_delimiter on one file                   *)
(*   SpecConvert  a direct call of convert_data                            *)
(*   Spec         a run of batch_convert_data                              *)
(***************************************************************************)
EXTENDS Integers, Sequences, FiniteSets, TLC

VARIABLES
    (* detect_delimiter call *)
    file,            \* the file at file_path
    sample_lines,    \* the sample_lines argument
    dret,            \* <<the call's result>>, <<>> before the call
    (* convert_data call *)
    cin,             \* <<arguments and the filesystem before the call>>
    cout,            \* <<the call's result>>, <<>> before the call
    (* batch_convert_data run *)
    pc,              \* position in batch_convert_data
    args,            \* the arguments of the run
    folder,          \* input folder: file name -> file
    outdir,          \* output folder: "absent", "present"
    outfiles,        \* output folder content: file name -> what was written
    ext_i,           \* index of the extension the discovery loop is at
    all_files,       \* all_files (line 102)
    i,               \* index of the file the processing loop is at
    stats,           \* stats (line 93)
    cur,             \* <<the convert_data call in flight>>
    propagated,      \* the exception that left batch_convert_data
    hist             \* per processed entry: what its conversion did

vars == <<file, sample_lines, dret, cin, cout, pc, args, folder, outdir,
          outfiles, ext_i, all_files, i, stats, cur, propagated, hist>>

detVars == <<file, sample_lines, dret>>
convVars == <<cin, cout>>
batchVars == <<pc, args, folder, outdir, outfiles, ext_i, all_files, i,
               stats, cur, propagated, hist>>

(* Bounds *)
MaxTextLen == 4
MaxSample == 2
MaxConvTextLen == 1
MaxFiles == 2
MaxExts == 2
MaxRemovals == 1

None == "None"

Range(s) == {s[k] : k \in DOMAIN s}

RECURSIVE SeqsUpTo(_, _)
SeqsUpTo(S, n) ==
    IF n = 0 THEN {<<>>}
    ELSE LET shorter == SeqsUpTo(S, n - 1)
         IN shorter \cup {Append(s, c) : s \in {t \in shorter : Len(t) = n - 1}, c \in S}

(***************************************************************************)
(* Files.  A text file is its characters (the text), and the set of calls  *)
(* of next() on the open file at which decoding raises (bad; empty for a   *)
(* file that is valid UTF-8; the decoder works on chunks, so the call that *)
(* raises is at or before the line that holds the invalid bytes).          *)
(***************************************************************************)
common_delimiters == <<",", "\t", "|", ";", " ">>
NL == "\n"
Chars == Range(common_delimiters) \cup {"x", NL}

\* Iterating a text file: lines end after each "\n", the last one at the end.
RECURSIVE SplitFrom(_, _, _)
SplitFrom(text, p, line) ==
    IF p > Len(text) THEN (IF line = <<>> THEN <<>> ELSE <<line>>)
    ELSE IF text[p] = NL THEN <<Append(line, NL)>> \o SplitFrom(text, p + 1, <<>>)
    ELSE SplitFrom(text, p + 1, Append(line, text[p]))

Lines(text) == SplitFrom(text, 1, <<>>)

(***************************************************************************)
(* detect_delimiter                                                        *)
(***************************************************************************)
InitCounts == [d \in Range(common_delimiters) |-> 0]

\* str.count of a one-character string
RECURSIVE Count(_, _)
Count(line, d) ==
    IF line = <<>> THEN 0
    ELSE (IF Head(line) = d THEN 1 ELSE 0) + Count(Tail(line), d)

AddLine(counts, line) == [d \in DOMAIN counts |-> counts[d] + Count(line, d)]

\* if i >= sample_lines: break
BreakAt(k, n) == k >= n

\* for i, line in enumerate(f): next(f) comes first (it may raise, or stop
\* the loop), then the break, then the counting.  k is the 0-based i.
RECURSIVE ReadLoop(_, _, _, _, _)
ReadLoop(lines, bad, n, k, counts) ==
    IF k \in bad THEN [exc |-> "UnicodeDecodeError", counts |-> counts]
    ELSE IF k >= Len(lines) THEN [exc |-> None, counts |-> counts]
    ELSE IF BreakAt(k, n) THEN [exc |-> None, counts |-> counts]
    ELSE ReadLoop(lines, bad, n, k + 1, AddLine(counts, lines[k + 1]))

\* max(delimiter_counts.items(), key=lambda x: x[1])[0]: items come in
\* insertion order, and max keeps the first of the largest.
RECURSIVE MaxLastFrom(_, _, _)
MaxLastFrom(counts, k, best) ==
    IF k > Len(common_delimiters) THEN common_delimiters[best]
    ELSE MaxLastFrom(counts, k + 1,
            IF counts[common_delimiters[k]] >= counts[common_delimiters[best]]
            THEN k ELSE best)

RECURSIVE MaxFrom(_, _, _)
MaxFrom(counts, k, best) ==
    IF k > Len(common_delimiters) THEN common_delimiters[best]
    ELSE MaxFrom(counts, k + 1,
            IF counts[common_delimiters[k]] > counts[common_delimiters[best]]
            THEN k ELSE best)

MaxItemLast(counts) == MaxLastFrom(counts, 2, 1)
MaxItem(counts) == MaxFrom(counts, 2, 1)

\* x or ","
OrComma(x) == IF x = "" THEN "," ELSE x

\* except Exception as e: the classes the handlers catch
OnlyOSError(e) == e \in {"FileNotFoundError", "PermissionError"}
IsException(e) ==
    e \in {"FileNotFoundError", "UnicodeDecodeError", "ParserError",
           "PermissionError"}

\* return ","  (line 30)
ExceptReturnBest(counts) == MaxItem(counts)
ExceptReturn(counts) == ","

detect_delimiter(f, n) ==
    LET r == IF ~f.exists
             THEN [exc |-> "FileNotFoundError", counts |-> InitCounts]
             ELSE ReadLoop(Lines(f.text), f.bad, n, 0, InitCounts)
    IN  IF r.exc # None
        THEN IF IsException(r.exc)
             THEN [ret |-> ExceptReturn(r.counts), raised |-> None,
                   caught |-> r.exc, counts |-> r.counts]
             ELSE [ret |-> None, raised |-> r.exc,
                   caught |-> None, counts |-> r.counts]
        ELSE [ret |-> OrComma(MaxItem(r.counts)), raised |-> None,
              caught |-> None, counts |-> r.counts]

(***************************************************************************)
(* convert_data                                                            *)
(*                                                                         *)
(* A file to convert is [exists, text, bad, malformed]: malformed says     *)
(* that pandas.read_csv rejects the text (it is not a rectangular table).  *)
(* The output side of a call is env = [dir, old, write]: the state of the  *)
(* output directory ("absent", "present", or "blocked" when it cannot be   *)
(* created), what is at output_path before the call (Absent or a           *)
(* content), and what the operating system does with the write ("ok",      *)
(* "refused" before anything is written, "midway" after the file was       *)
(* opened for writing).                                                    *)
(***************************************************************************)
Absent == [src |-> <<"absent">>, sep |-> None, header |-> FALSE, fmt |-> None]
Stale == [src |-> <<"stale">>, sep |-> None, header |-> FALSE, fmt |-> None]
Truncated == [src |-> <<"truncated">>, sep |-> None, header |-> FALSE, fmt |-> None]

Exc(type) == [type |-> type, cause |-> None]
NoExc == Exc(None)
IsRaised(e) == e.type # None
NoTable == [text |-> <<>>, sep |-> None, header |-> FALSE]

\* str.lower on the format strings
Lower(s) ==
    CASE s = "EXCEL" -> "excel"
      [] s = "Excel" -> "excel"
      [] s = "CSV" -> "csv"
      [] OTHER -> s

\* if not input_path.exists()  (line 47)
InputExistsUnchecked(f) == TRUE
InputExists(f) == f.exists

\* if delimiter is None  (line 51)
AlwaysDetect(delimiter) == TRUE
IsNone(delimiter) == delimiter = None

\* pd.read_csv(str(input_path), delimiter=delimiter, [header=None,]
\*             encoding='utf-8')  (lines 56-61): the table is the text as
\* split at sep, with or without a header row.
ReadCsv(f, delimiter, has_headers) ==
    IF ~f.exists THEN [exc |-> Exc("FileNotFoundError"), df |-> NoTable]
    ELSE IF f.bad # {} THEN [exc |-> Exc("UnicodeDecodeError"), df |-> NoTable]
    ELSE IF f.malformed THEN [exc |-> Exc("ParserError"), df |-> NoTable]
    ELSE [exc |-> NoExc,
          df |-> [text |-> f.text, sep |-> delimiter, header |-> has_headers]]

\* Path(output_path).parent.mkdir(parents=True, exist_ok=True)  (line 64)
Mkdir(dir) ==
    IF dir = "blocked" THEN [exc |-> Exc("PermissionError"), dir |-> dir]
    ELSE [exc |-> NoExc, dir |-> "present"]

\* df.to_excel(...) / df.to_csv(...)  (lines 67-70)
WriteOutput(df, src, output_format, has_headers, env) ==
    LET fmt == IF Lower(output_format) = "excel" THEN "excel" ELSE "csv"
    IN  CASE env.write = "ok" ->
                [exc |-> NoExc,
                 content |-> [src |-> src, sep |-> df.sep,
                              header |-> has_headers, fmt |-> fmt]]
          [] env.write = "refused" ->
                [exc |-> Exc("PermissionError"), content |-> env.old]
          [] OTHER ->
                [exc |-> Exc("PermissionError"), content |-> Truncated]

DefaultSampleLines == 5

\* The body of the try (lines 46-73).  The result holds the exception that
\* ended it (NoExc when it ran to its end), the directory and the content at
\* output_path after it, the calls it made in order, and the delimiter that
\* went to read_csv.
TryBody(f, src, delimiter, has_headers, output_format, env) ==
    LET none == [exc |-> NoExc, dir |-> env.dir, content |-> env.old,
                 events |-> <<"exists">>, parsed_with |-> None]
    IN
    IF ~InputExists(f)
    THEN [none EXCEPT !.exc = Exc("FileNotFoundError")]
    ELSE
    LET det == IF IsNone(delimiter)
               THEN detect_delimiter(f, DefaultSampleLines)
               ELSE [ret |-> delimiter, raised |-> None]
        ev1 == IF IsNone(delimiter)
               THEN <<"exists", "detect_delimiter", "log.info">>
               ELSE <<"exists">>
    IN
    IF det.raised # None
    THEN [none EXCEPT !.exc = Exc(det.raised),
                      !.events = <<"exists", "detect_delimiter">>]
    ELSE
    LET rd == ReadCsv(f, det.ret, has_headers)
        ev2 == Append(ev1, "read_csv")
    IN
    IF IsRaised(rd.exc)
    THEN [none EXCEPT !.exc = rd.exc, !.events = ev2,
                      !.parsed_with = det.ret]
    ELSE
    LET mk == Mkdir(env.dir)
        ev3 == Append(ev2, "mkdir")
    IN
    IF IsRaised(mk.exc)
    THEN [none EXCEPT !.exc = mk.exc, !.events = ev3,
                      !.parsed_with = det.ret]
    ELSE
    LET wr == WriteOutput(rd.df, src, output_format, has_headers, env)
        ev4 == Append(ev3, IF Lower(output_format) = "excel"
                           THEN "to_excel" ELSE "to_csv")
    IN
    [exc |-> wr.exc, dir |-> mk.dir, content |-> wr.content,
     events |-> IF ~IsRaised(wr.exc) THEN ev4 \o <<"log.info", "log.info">>
                ELSE ev4,
     parsed_with |-> det.ret]

\* raise  (line 77): the exception caught goes on, as it is
ReraiseWrapped(e) == [type |-> "ConversionError", cause |-> e.type]
Reraise(e) == e

\* convert_data (lines 35-77): the try, its handler, and what the caller
\* gets: raised is NoExc for a return and the exception otherwise.
convert_data(f, src, delimiter, has_headers, output_format, env) ==
    LET b == TryBody(f, src, delimiter, has_headers, output_format, env)
        handled == IsRaised(b.exc) /\ IsException(b.exc.type)
    IN  [raised |-> IF handled THEN Reraise(b.exc) ELSE b.exc,
         cause |-> b.exc,
         dir |-> b.dir,
         content |-> b.content,
         events |-> IF handled THEN b.events \o <<"log.error", "raise">>
                    ELSE IF IsRaised(b.exc) THEN Append(b.events, "raise")
                    ELSE Append(b.events, "return"),
         parsed_with |-> b.parsed_with]

Texts == SeqsUpTo(Chars, MaxTextLen)

\* the files detect_delimiter is called on
DetectFiles ==
    {[exists |-> FALSE, text |-> <<>>, bad |-> {}]}
    \cup {[exists |-> TRUE, text |-> t, bad |-> b] :
            t \in Texts,
            b \in {{}} \cup {{k} : k \in 0..MaxTextLen}}

DetectableFile(f) == f.exists => \A k \in f.bad : k <= Len(Lines(f.text))

BatchIdle ==
    /\ pc = "idle" /\ args = <<>> /\ folder = <<>> /\ outdir = "absent"
    /\ outfiles = <<>> /\ ext_i = 0 /\ all_files = <<>> /\ i = 0
    /\ stats = <<>> /\ cur = <<>> /\ hist = <<>>
    /\ propagated = [type |-> "None", cause |-> "None"]

ConvIdle == cin = <<>> /\ cout = <<>>

DetectIdle ==
    /\ file = [exists |-> FALSE, text |-> <<>>, bad |-> {}]
    /\ sample_lines = 0
    /\ dret = <<>>

InitDetect ==
    /\ file \in {f \in DetectFiles : DetectableFile(f)}
    /\ sample_lines \in 0..MaxSample
    /\ dret = <<>>
    /\ ConvIdle
    /\ BatchIdle

DetectCall ==
    /\ dret = <<>>
    /\ dret' = <<detect_delimiter(file, sample_lines)>>
    /\ UNCHANGED <<file, sample_lines, convVars, batchVars>>

NextDetect == DetectCall

SpecDetect == InitDetect /\ [][NextDetect]_vars

(***************************************************************************)
(* Claims about detect_delimiter (SpecDetect)                              *)
(***************************************************************************)
DetectDone == dret # <<>>

\* Occurrences of c in the first n lines of the text: the positions holding
\* c that have fewer than n line ends before them.
Total(c, text, n) ==
    Cardinality({p \in 1..Len(text) :
        /\ text[p] = c
        /\ Cardinality({q \in 1..(p - 1) : text[q] = NL}) < n})

Readable(f) == f.exists /\ f.bad = {}

\* C4: on a readable file, detect_delimiter returns the earliest candidate of
\* [comma, tab, pipe, semicolon, space] whose number of occurrences in the
\* first min(sample_lines, number of lines) lines is maximal: ties go to the
\* earlier candidate, no occurrence at all gives comma, and the lines after
\* the first sample_lines lines play no part.
C4_EarliestMaximal ==
    (DetectDone /\ Readable(file)) =>
        /\ dret[1].raised = None
        /\ \E k \in DOMAIN common_delimiters :
            /\ dret[1].ret = common_delimiters[k]
            /\ \A j \in DOMAIN common_delimiters :
                /\ Total(common_delimiters[j], file.text, sample_lines)
                      <= Total(common_delimiters[k], file.text, sample_lines)
                /\ j < k =>
                      Total(common_delimiters[j], file.text, sample_lines)
                      < Total(common_delimiters[k], file.text, sample_lines)

\* A tie between pipe and semicolon in the sample, broken towards pipe, with a
\* line after the sample that would have made semicolon win.
C4_Witness ==
    /\ DetectDone /\ Readable(file)
    /\ sample_lines = 1
    /\ Len(Lines(file.text)) = 2
    /\ Total("|", file.text, 1) = 1
    /\ Total(";", file.text, 1) = 1
    /\ Count(file.text, ";") = 2
    /\ dret[1].ret = "|"

\* The call of next() at which reading fails, if the loop gets to it: the
\* loop fetches lines 0..sample_lines (the last one only to break).
ReadFails(f, n) == ~f.exists \/ \E k \in f.bad : k <= n

\* C5: detect_delimiter never raises; when opening the file or reading a
\* line fails it returns comma, whatever it had counted before the failure.
C5_FailureGivesComma ==
    DetectDone =>
        /\ dret[1].raised = None
        /\ ReadFails(file, sample_lines) => dret[1].ret = ","

\* A decode error on the second line, after a first line that put pipe ahead.
C5_Witness ==
    /\ DetectDone
    /\ file.exists /\ file.bad = {1} /\ sample_lines >= 1
    /\ dret[1].counts["|"] > dret[1].counts[","]
    /\ dret[1].ret = ","

(***************************************************************************)
(* SpecConvert: one direct call of convert_data                            *)
(***************************************************************************)
ConvTexts == SeqsUpTo(Chars, MaxConvTextLen)

ConvFiles ==
    {[exists |-> FALSE, text |-> <<>>, bad |-> {}, malformed |-> FALSE]}
    \cup {[exists |-> TRUE, text |-> t, bad |-> b, malformed |-> m] :
            t \in ConvTexts, b \in {{}, {0}}, m \in BOOLEAN}

Delimiters == {None, ";", "#"}
Formats == {"csv", "excel", "EXCEL", "json"}

Envs ==
    [dir : {"absent", "present", "blocked"},
     old : {Absent, Stale},
     write : {"ok", "refused", "midway"}]

InitConvert ==
    /\ cin \in {<<c>> : c \in
                  [f : ConvFiles, delimiter : Delimiters,
                   has_headers : BOOLEAN, output_format : Formats,
                   env : {e \in Envs : e.dir = "present" \/ e.old = Absent}]}
    /\ cout = <<>>
    /\ DetectIdle
    /\ BatchIdle

ConvertCall ==
    /\ cout = <<>>
    /\ cout' = <<convert_data(cin[1].f, <<"input">>, cin[1].delimiter,
                              cin[1].has_headers, cin[1].output_format,
                              cin[1].env)>>
    /\ UNCHANGED <<cin, detVars, batchVars>>

NextConvert == ConvertCall

SpecConvert == InitConvert /\ [][NextConvert]_vars

(***************************************************************************)
(* Claims about convert_data (SpecConvert)                                 *)
(***************************************************************************)
ConvertDone == cout # <<>>
ConvertFailed == ConvertDone /\ IsRaised(cout[1].raised)

Last(s) == s[Len(s)]
Occurrences(s, x) == Cardinality({k \in DOMAIN s : s[k] = x})

\* C6, as claimed: when convert_data fails, what reaches the caller is a
\* ConversionError that wraps the underlying cause, raised after the error
\* was logged.
C6_AsClaimed ==
    ConvertFailed =>
        /\ cout[1].raised.type = "ConversionError"
        /\ cout[1].raised.cause = cout[1].cause.type
        /\ Len(cout[1].events) >= 2
        /\ cout[1].events[Len(cout[1].events) - 1] = "log.error"

\* C6, amended: when convert_data fails, what reaches the caller is the
\* underlying error itself (FileNotFoundError, the parser's error, the
\* write's error), not wrapped in anything, raised right after the error
\* was logged; and it fails in each of these cases.
C6_ReraisedUnwrapped ==
    /\ ConvertFailed =>
        /\ cout[1].raised = cout[1].cause
        /\ cout[1].raised.type \in
              {"FileNotFoundError", "UnicodeDecodeError", "ParserError",
               "PermissionError"}
        /\ Len(cout[1].events) >= 2
        /\ Last(cout[1].events) = "raise"
        /\ cout[1].events[Len(cout[1].events) - 1] = "log.error"
        /\ Occurrences(cout[1].events, "log.error") = 1
    /\ ConvertDone =>
        (ConvertFailed <=>
            \/ ~cin[1].f.exists
            \/ cin[1].f.bad # {}
            \/ cin[1].f.malformed
            \/ cin[1].env.dir = "blocked"
            \/ cin[1].env.write # "ok")

\* A parse error reaches the caller as the parser's own error.
C6_Witness ==
    /\ ConvertFailed
    /\ cin[1].f.exists /\ cin[1].f.malformed /\ cin[1].f.bad = {}
    /\ cout[1].raised.type = "ParserError"

\* The call fails at or before the parse step
FailsByParse(c) == ~c.f.exists \/ c.f.bad # {} \/ c.f.malformed

\* C10: when convert_data fails at or before the parse step (missing input,
\* or an input that does not parse), it has written nothing: the output
\* directory is as it was (not created) and what was at output_path is
\* unchanged; for a missing input neither the detector nor the parser ran.
C10_NoWriteBeforeParse ==
    (ConvertDone /\ FailsByParse(cin[1])) =>
        /\ ConvertFailed
        /\ cout[1].dir = cin[1].env.dir
        /\ cout[1].content = cin[1].env.old
        /\ Occurrences(cout[1].events, "mkdir") = 0
        /\ ~cin[1].f.exists =>
            /\ Occurrences(cout[1].events, "detect_delimiter") = 0
            /\ Occurrences(cout[1].events, "read_csv") = 0

\* A missing input, with no output directory yet and a write that would
\* have gone through.
C10_Witness ==
    /\ ConvertFailed
    /\ ~cin[1].f.exists
    /\ cin[1].delimiter = None
    /\ cin[1].env.dir = "absent" /\ cin[1].env.write = "ok"
    /\ cout[1].dir = "absent"

\* An unparseable input over a stale output of an earlier run.
C10_WitnessStale ==
    /\ ConvertFailed
    /\ cin[1].f.exists /\ cin[1].f.malformed
    /\ cin[1].env.old = Stale /\ cin[1].env.write = "ok"
    /\ cout[1].content = Stale

(***************************************************************************)
(* batch_convert_data                                                      *)
(*                                                                         *)
(* File names and extensions are strings of characters.  The input folder  *)
(* maps the names of the files in it to the files; the output folder maps  *)
(* every output name to what is there (Absent for nothing).                *)
(***************************************************************************)
Stems == {<<"a">>, <<"b">>}
Suffixes == {<<".", "d", "a", "t">>, <<".", "t", "x", "t">>}
\* the names a file of the input folder may have: two of one stem, two of
\* one suffix
Names ==
    {<<"a">> \o su : su \in Suffixes} \cup {<<"b", ".", "t", "x", "t">>}
CsvExt == <<".", "c", "s", "v">>
XlsxExt == <<".", "x", "l", "s", "x">>
OutNames == {st \o e : st \in Stems, e \in {CsvExt, XlsxExt}}

\* input_path.glob(f"*{ext}"): the names that end with ext  (line 104)
EndsWith(name, ext) ==
    /\ Len(ext) <= Len(name)
    /\ SubSeq(name, Len(name) - Len(ext) + 1, Len(name)) = ext

Glob(dir, ext) == {n \in DOMAIN dir : EndsWith(n, ext)}

\* file_path.stem: the name without its last suffix  (line 115)
RECURSIVE LastDot(_, _)
LastDot(name, p) ==
    IF p <= 1 THEN 0
    ELSE IF name[p] = "." THEN p ELSE LastDot(name, p - 1)

PathStem(name) ==
    LET d == LastDot(name, Len(name))
    IN  IF d = 0 THEN name ELSE SubSeq(name, 1, d - 1)

\* output_extension, output_path  (lines 114-115)
OutputExtension(output_format) ==
    IF Lower(output_format) = "excel" THEN XlsxExt ELSE CsvExt

OutputPath(name, output_format) ==
    PathStem(name) \o OutputExtension(output_format)

\* all the orders a directory listing can come in
Orders(S) ==
    {o \in [1..Cardinality(S) -> S] : \A a, b \in DOMAIN o : a # b => o[a] # o[b]}

\* stats  (lines 93-98)
NewStats == [total_files |-> 0, successful |-> 0, failed |-> 0,
             failed_files |-> <<>>]

\* stats["successful"] += 1  (line 124)
RecordSuccess(st) == [st EXCEPT !.successful = @ + 1]

\* stats["failed"] += 1; stats["failed_files"].append(...)  (lines 128-129)
RecordFailureUncounted(st, path) ==
    [st EXCEPT !.failed_files = Append(@, path)]
RecordFailureUnlisted(st, path) ==
    [st EXCEPT !.failed = @ + 1]
RecordFailure(st, path) ==
    [st EXCEPT !.failed = @ + 1, !.failed_files = Append(@, path)]

\* except Exception as e  (line 126)
BatchCatchesOSError(e) == OnlyOSError(e.type)
BatchCatches(e) == IsException(e.type)

\* the for loop's step to the next entry  (line 109)
SkipEntry(k) == k + 2
NextEntry(k) == k + 1

Missing == [exists |-> FALSE, text |-> <<>>, bad |-> {}, malformed |-> FALSE]

\* the file at a path, as the filesystem has it now
FileAt(dir, name) == IF name \in DOMAIN dir THEN dir[name] ELSE Missing

BatchTexts == {<<"|">>, <<",", ";", ";">>}

BatchFiles ==
    {[exists |-> TRUE, text |-> t, bad |-> {}, malformed |-> FALSE] :
        t \in BatchTexts}
    \cup {[exists |-> TRUE, text |-> <<"|">>, bad |-> {}, malformed |-> TRUE]}

\* what is at an output path that cannot be written (a directory of that
\* name, a file without write permission)
Locked == [src |-> <<"locked">>, sep |-> None, header |-> FALSE, fmt |-> None]

\* the output folder before the run: not there, there with the outputs of
\* stem "a" locked, or not there and impossible to create
OutFolders ==
    {[dir |-> "absent", files |-> [o \in OutNames |-> Absent]],
     [dir |-> "present",
      files |-> [o \in OutNames |-> IF PathStem(o) = <<"a">> THEN Locked ELSE Absent]],
     [dir |-> "blocked", files |-> [o \in OutNames |-> Absent]]}

\* what the operating system does with a write at a path
WriteAt(old) == IF old = Locked THEN "refused" ELSE "ok"

Folders ==
    UNION {[S -> BatchFiles] : S \in {T \in SUBSET Names : Cardinality(T) <= MaxFiles}}

ExtLists == SeqsUpTo(Suffixes, MaxExts)

BatchArgs ==
    [file_extensions : ExtLists,
     output_format : {"csv", "EXCEL"},
     has_headers : {FALSE},
     custom_delimiter : {None, ";"}]

Init ==
    /\ pc = "start"
    /\ args \in BatchArgs
    /\ folder \in Folders
    /\ \E o \in OutFolders : outdir = o.dir /\ outfiles = o.files
    /\ ext_i = 1
    /\ all_files = <<>>
    /\ i = 1
    /\ stats = NewStats
    /\ cur = <<>>
    /\ propagated = NoExc
    /\ hist = <<>>
    /\ DetectIdle
    /\ ConvIdle

\* Path(output_folder).mkdir(parents=True, exist_ok=True); stats = {...}
\* (lines 91-98).  The call is outside every try: its error leaves
\* batch_convert_data.
EnsureOutputFolder ==
    /\ pc = "start"
    /\ LET mk == Mkdir(outdir)
       IN  /\ outdir' = mk.dir
           /\ pc' = IF IsRaised(mk.exc) THEN "raised" ELSE "discover"
           /\ propagated' = mk.exc
    /\ stats' = NewStats
    /\ UNCHANGED <<args, folder, outfiles, ext_i, all_files, i, cur, hist,
                   detVars, convVars>>

\* all_files.extend(list(input_path.glob(f"*{ext}")))  (lines 103-104),
\* one extension of the list: the listing comes in some order.
Discover ==
    /\ pc = "discover"
    /\ ext_i <= Len(args.file_extensions)
    /\ \E o \in Orders(Glob(folder, args.file_extensions[ext_i])) :
          all_files' = all_files \o [k \in DOMAIN o |-> [name |-> o[k], ext |-> ext_i]]
    /\ ext_i' = ext_i + 1
    /\ UNCHANGED <<pc, args, folder, outdir, outfiles, i, stats, cur, hist,
                   propagated, detVars, convVars>>

\* stats["total_files"] = len(all_files)  (line 106)
SetTotal ==
    /\ pc = "discover"
    /\ ext_i > Len(args.file_extensions)
    /\ stats' = [stats EXCEPT !.total_files = Len(all_files)]
    /\ pc' = "loop"
    /\ UNCHANGED <<args, folder, outdir, outfiles, ext_i, all_files, i, cur,
                   hist, propagated, detVars, convVars>>

\* The call of convert_data for entry i  (lines 111-123)
ConvertFile ==
    /\ pc = "loop"
    /\ i <= Len(all_files)
    /\ LET write == WriteAt(outfiles[OutputPath(all_files[i].name, args.output_format)])
            name == all_files[i].name
            out == OutputPath(name, args.output_format)
            f == FileAt(folder, name)
            env == [dir |-> outdir, old |-> outfiles[out], write |-> write]
            r == convert_data(f, name, args.custom_delimiter,
                              args.has_headers, args.output_format, env)
        IN  /\ cur' = <<[index |-> i, path |-> name, out |-> out, f |-> f,
                         write |-> write, raised |-> r.raised,
                         events |-> r.events, parsed_with |-> r.parsed_with,
                         content |-> r.content]>>
            /\ outfiles' = [outfiles EXCEPT ![out] = r.content]
            /\ outdir' = r.dir
    /\ pc' = "record"
    /\ UNCHANGED <<args, folder, ext_i, all_files, i, stats, hist,
                   propagated, detVars, convVars>>

\* stats["successful"] += 1, or the handler  (lines 124-129), and on to the
\* next entry
RecordOutcome ==
    /\ pc = "record"
    /\ LET c == cur[1]
       IN  IF ~IsRaised(c.raised)
           THEN /\ stats' = RecordSuccess(stats)
                /\ pc' = "loop" /\ cur' = <<>>
                /\ hist' = Append(hist, c)
                /\ i' = NextEntry(i)
                /\ UNCHANGED propagated
           ELSE IF BatchCatches(c.raised)
           THEN /\ stats' = RecordFailure(stats, c.path)
                /\ pc' = "loop" /\ cur' = <<>>
                /\ hist' = Append(hist, c)
                /\ i' = NextEntry(i)
                /\ UNCHANGED propagated
           ELSE /\ pc' = "raised"
                /\ propagated' = c.raised
                /\ UNCHANGED <<stats, cur, hist, i>>
    /\ UNCHANGED <<args, folder, outdir, outfiles, ext_i, all_files,
                   detVars, convVars>>

\* the summary and return stats  (lines 132-135)
ReturnStats ==
    /\ pc = "loop"
    /\ i > Len(all_files)
    /\ pc' = "done"
    /\ UNCHANGED <<args, folder, outdir, outfiles, ext_i, all_files, i,
                   stats, cur, hist, propagated, detVars, convVars>>

\* Another process removes an input file that the loop has still to convert.
Removed == Cardinality({k \in DOMAIN all_files : all_files[k].name \notin DOMAIN folder})

EnvRemove ==
    /\ pc = "loop"
    /\ i <= Len(all_files)
    /\ Removed < MaxRemovals
    /\ \E n \in DOMAIN folder :
          /\ \E k \in i..Len(all_files) : all_files[k].name = n
          /\ folder' = [m \in DOMAIN folder \ {n} |-> folder[m]]
    /\ UNCHANGED <<pc, args, outdir, outfiles, ext_i, all_files, i, stats,
                   cur, hist, propagated, detVars, convVars>>

BatchStep ==
    \/ EnsureOutputFolder
    \/ Discover
    \/ SetTotal
    \/ ConvertFile
    \/ RecordOutcome
    \/ ReturnStats

Next == BatchStep \/ EnvRemove

Spec == Init /\ [][Next]_vars

(***************************************************************************)
(* Claims about batch_convert_data (Spec)                                  *)
(***************************************************************************)
Done == pc = "done"
K == Len(all_files)

\* Entry k's conversion fails, from the state of its own file and of its own
\* output path when it was converted: the input is missing, does not decode
\* or does not parse, or the output cannot be written.
Fails(k) ==
    \/ ~hist[k].f.exists
    \/ hist[k].f.bad # {}
    \/ hist[k].f.malformed
    \/ hist[k].write # "ok"

Succeeded(k) == ~IsRaised(hist[k].raised)

RECURSIVE FailedPaths(_)
FailedPaths(k) ==
    IF k = 0 THEN <<>>
    ELSE FailedPaths(k - 1) \o (IF Fails(k) THEN <<all_files[k].name>> ELSE <<>>)

\* C1: batch isolation.  When the batch returns, with K discovered files of
\* which the set F fail on their own (unparseable, missing at conversion
\* time, unwritable), total_files = K, failed = |F|, successful = K - |F|,
\* failed_files is the paths of F in discovery order, and every file outside
\* F was converted and its output written.
C1_BatchIsolation ==
    Done =>
        LET F == {k \in 1..K : Fails(k)}
        IN  /\ Len(hist) = K
            /\ stats.total_files = K
            /\ stats.failed = Cardinality(F)
            /\ stats.successful = K - Cardinality(F)
            /\ stats.failed_files = FailedPaths(K)
            /\ \A k \in 1..K :
                  k \notin F =>
                    /\ Succeeded(k)
                    /\ hist[k].content.src = all_files[k].name

\* A failed file followed by a converted one.
C1_Witness ==
    /\ Done /\ K >= 2
    /\ Fails(1) /\ ~Fails(2)
    /\ stats.failed_files = <<all_files[1].name>>
    /\ stats.successful = K - 1

\* C2: when the batch returns, total_files = successful + failed.
C2_TotalIsSum ==
    Done => stats.total_files = stats.successful + stats.failed

C2_Witness ==
    Done /\ stats.successful >= 1 /\ stats.failed >= 1

\* C3, as claimed: no error leaves batch_convert_data.
C3_AsClaimed == pc # "raised" /\ ~IsRaised(propagated)

\* what is left to do: the extensions to list, and per file to convert the
\* call and the recording of its outcome
Remaining ==
    CASE pc = "start" ->
            Len(args.file_extensions) * (2 * Cardinality(Names) + 1) + 4
      [] pc = "discover" ->
            (Len(args.file_extensions) + 1 - ext_i) * (2 * Cardinality(Names) + 1)
            + 2 * K + 2
      [] pc = "loop" -> 2 * (K + 1 - i) + 1
      [] pc = "record" -> 2 * (K + 1 - i)
      [] OTHER -> 0

C3_Safe ==
    /\ (pc = "raised" \/ IsRaised(propagated)) =>
        /\ pc = "raised"
        /\ outdir = "blocked"
        /\ all_files = <<>> /\ hist = <<>> /\ cur = <<>> /\ ext_i = 1
        /\ propagated.type = "PermissionError"
    /\ Done => Len(hist) = K /\ stats.successful + stats.failed = K

C3_Progress ==
    (pc' # pc \/ ext_i' # ext_i \/ i' # i \/ cur' # cur \/ hist' # hist) =>
        Remaining' < Remaining /\ Remaining' >= 0

\* C3, amended: the only error that leaves batch_convert_data is that of
\* creating the output folder (line 91), before anything was discovered or
\* converted; no failure of a conversion leaves it.  Once the folder is
\* there every step of the run brings it nearer to its return, and it
\* returns with an outcome recorded for every discovered file, also when
\* every file failed.
C3_OnlyFolderCreationPropagates == []C3_Safe /\ [][C3_Progress]_vars

\* Every file of the batch failed, and the batch returned.
C3_Witness ==
    /\ Done /\ K >= 2
    /\ stats.failed = K
    /\ \E k \in 1..K : hist[k].raised.type = "ParserError"
    /\ \E k \in 1..K : hist[k].raised.type = "FileNotFoundError"

\* The output files that hold a conversion of this batch
ConvertedOutputs == {o \in OutNames : outfiles[o].src \in Names}

\* C7: when the batch returns, every successfully converted input has its
\* own output file in the output folder, named by the input's stem with
\* .xlsx for the excel format and .csv otherwise: the output of a successful
\* input holds that input's conversion, and there are as many output files
\* as successfully converted inputs.
C7_OneOutputPerSuccess ==
    Done =>
        /\ \A k \in 1..Len(hist) :
              Succeeded(k) =>
                /\ hist[k].out = PathStem(hist[k].path)
                       \o (IF args.output_format \in {"excel", "EXCEL"}
                           THEN XlsxExt ELSE CsvExt)
                /\ outfiles[hist[k].out].src = hist[k].path
        /\ Cardinality(ConvertedOutputs)
              = Cardinality({hist[k].path : k \in {j \in 1..Len(hist) : Succeeded(j)}})

\* The delimiter a file of its own suggests: comma when it does not decode,
\* else the earliest candidate with the most occurrences in its first
\* DefaultSampleLines lines.
OwnDelimiter(f, d) ==
    IF f.bad # {} THEN d = ","
    ELSE \E k \in DOMAIN common_delimiters :
            /\ d = common_delimiters[k]
            /\ \A j \in DOMAIN common_delimiters :
                /\ Total(common_delimiters[j], f.text, DefaultSampleLines)
                      <= Total(common_delimiters[k], f.text, DefaultSampleLines)
                /\ j < k =>
                      Total(common_delimiters[j], f.text, DefaultSampleLines)
                      < Total(common_delimiters[k], f.text, DefaultSampleLines)

Calls == hist \o cur

\* with a delimiter given, it goes to the parser and the detector stays out
GivenDelimiterUsed(c) ==
    args.custom_delimiter # None =>
        /\ Occurrences(c.events, "detect_delimiter") = 0
        /\ c.f.exists =>
            /\ Occurrences(c.events, "read_csv") = 1
            /\ c.parsed_with = args.custom_delimiter

\* with none given, what goes to the parser comes from the file's own text
OwnDelimiterUsed(c) ==
    (args.custom_delimiter = None /\ c.f.exists) =>
        /\ Occurrences(c.events, "read_csv") = 1
        /\ OwnDelimiter(c.f, c.parsed_with)

\* C8, as claimed: a given delimiter is used as it is and the detector is
\* not called; with none given the detector is called exactly once for the
\* file, and in a batch each file gets the delimiter of its own text.
C8_AsClaimed ==
    \A n \in DOMAIN Calls :
        /\ GivenDelimiterUsed(Calls[n])
        /\ OwnDelimiterUsed(Calls[n])
        /\ args.custom_delimiter = None =>
              Occurrences(Calls[n].events, "detect_delimiter") = 1

\* C8, amended: as claimed, but with none given the detector is called
\* exactly once only for an input that exists; for a missing input
\* convert_data fails before it gets to the detector.
C8_DelimiterResolution ==
    \A n \in DOMAIN Calls :
        /\ GivenDelimiterUsed(Calls[n])
        /\ OwnDelimiterUsed(Calls[n])
        /\ args.custom_delimiter = None =>
              Occurrences(Calls[n].events, "detect_delimiter")
                  = (IF Calls[n].f.exists THEN 1 ELSE 0)

\* Two files of one batch parsed with two detected delimiters.
C8_Witness ==
    /\ Done /\ args.custom_delimiter = None /\ K >= 2
    /\ hist[1].parsed_with = "|" /\ hist[2].parsed_with = ";"
    /\ Occurrences(hist[1].events, "detect_delimiter") = 1
    /\ Occurrences(hist[2].events, "detect_delimiter") = 1

DiscoveryOver == ext_i > Len(args.file_extensions)

\* all_files is in discovery order: by extension of the list, and within an
\* extension the files that match it, each once
InDiscoveryOrder ==
    \A p, q \in DOMAIN all_files :
        /\ EndsWith(all_files[p].name, args.file_extensions[all_files[p].ext])
        /\ p < q =>
            /\ all_files[p].ext <= all_files[q].ext
            /\ all_files[p].ext = all_files[q].ext =>
                  all_files[p].name # all_files[q].name

C9_Order ==
    /\ (pc \in {"loop", "record", "done"} \/ cur # <<>> \/ hist # <<>>)
          => DiscoveryOver
    /\ InDiscoveryOrder
    /\ Len(hist) <= K
    /\ \A k \in DOMAIN hist :
          hist[k].index = k /\ hist[k].path = all_files[k].name
    /\ cur # <<>> =>
          /\ pc = "record"
          /\ cur[1].index = Len(hist) + 1
          /\ cur[1].path = all_files[cur[1].index].name
    /\ stats.successful = Cardinality({k \in DOMAIN hist : Succeeded(k)})
    /\ stats.failed = Cardinality({k \in DOMAIN hist : ~Succeeded(k)})
    /\ Done => Len(hist) = K /\ cur = <<>>

C9_Steps ==
    /\ pc # "discover" => all_files' = all_files
    /\ cur' # cur /\ cur' # <<>> => cur = <<>> /\ DiscoveryOver
    /\ hist' # hist =>
          /\ hist' = Append(hist, cur[1])
          /\ stats'.successful + stats'.failed
                = stats.successful + stats.failed + 1
          /\ stats'.successful >= stats.successful
          /\ stats'.failed >= stats.failed

====
